---- MODULE Spec2Model ----
(***************************************************************************)
(* Model of dist_mat.py: main() imports an address file, creates the       *)
(* pairwise jobs of every group, queries them one by one under a pacing    *)
(* delay and a daily quota, and exports the distance matrix.               *)
(*                                                                         *)
(* Time is counted in milliseconds, so that the 0.002 s pacing delay is    *)
(* the integer 2.  The clock advances while the program sleeps (by exactly *)
(* the requested duration) and while the oracle answers (by any latency);  *)
(* the statements in between take no time.                                 *)
(***************************************************************************)
EXTENDS Integers, Sequences, FiniteSets, TLC

\* Largest number of lines of the address file.
MaxLines == 4
\* Largest per-day quota explored (the source fixes it to 2500).
MaxCap == 3

\* ---------------------------------------------------------------------
\* Constants of get_dist_mat
\* ---------------------------------------------------------------------
\* time_jobs = 0.002 (sec), in ms
time_jobs == 2
\* time_quota = 3600 (sec), in ms; assigned but never read by the source
time_quota == 3600 * 1000
\* the literal 3600 * 24 of the window test, in ms
quota_window == 3600 * 24 * 1000

\* ---------------------------------------------------------------------
\* Inputs
\* ---------------------------------------------------------------------
\* The address written on the k-th line of the file.
AddrNames == <<"A", "B", "C", "D", "E", "F">>
\* The group fields found in the file, as text.
GroupTexts == {"1", "2"}
\* int(items[1]) succeeds
IsInt(s) == s \in GroupTexts
\* int(items[1])
int(s) == CASE s = "1" -> 1 [] s = "2" -> 2

LinesAt(k) ==
    {[kind |-> "comment", add |-> "#", grp |-> ""],
     [kind |-> "blank", add |-> "", grp |-> ""]}
    \cup {[kind |-> "record", add |-> AddrNames[k], grp |-> g] : g \in GroupTexts}

AllLines == UNION {LinesAt(k) : k \in 1..Len(AddrNames)}

Files ==
    UNION {{f \in [1..n -> AllLines] : \A k \in 1..n : f[k] \in LinesAt(k)} :
           n \in 0..(IF MaxLines < Len(AddrNames) THEN MaxLines ELSE Len(AddrNames))}

\* Malformed lines: one with no tab, hence no group field, and one whose group
\* field is not an integer.
MalformedAt(k) ==
    {[kind |-> "short", add |-> AddrNames[k], grp |-> ""],
     [kind |-> "record", add |-> AddrNames[k], grp |-> "x"]}

RECURSIVE FilesOfLen(_)
FilesOfLen(n) ==
    IF n = 0 THEN {<<>>}
    ELSE {Append(f, l) : f \in FilesOfLen(n - 1), l \in LinesAt(n) \cup MalformedAt(n)}

\* Files with and without malformed lines.
AnyFiles ==
    UNION {FilesOfLen(n) :
           n \in 0..(IF MaxLines < Len(AddrNames) THEN MaxLines ELSE Len(AddrNames))}

\* Values the Distance Oracle may return.
Dists == {"100", "250"}
\* The oracle is a function of the two address strings it is given: a stub
\* that answers one fixed value, and one whose answer depends on the origin.
AddrSet == {AddrNames[k] : k \in 1..Len(AddrNames)}
FixedValue == "100"
Oracles ==
    {[p \in AddrSet \X AddrSet |-> FixedValue],
     [p \in AddrSet \X AddrSet |-> IF p[1] \in {"A", "C", "E"} THEN "100" ELSE "250"]}
\* Time the oracle takes to answer.  With the pacing sleep added, the time
\* between two readings of the clock is 0, 1, 2 or 3 ms (below, at and above
\* time_jobs) or one window less 2 ms, one window, or more.
Latencies == {0, 1, quota_window - time_jobs, quota_window}
\* The clock is not read again after the last job's call, so its latency is
\* left at 0 there.
LatenciesOf(k, n) == IF k + 1 < n THEN Latencies ELSE {0}
\* time() at the start of the run: seconds since the epoch, far beyond one day.
StartTime == quota_window

VARIABLES
    file,           \* the lines of the address file
    pc,             \* position of main()
    addr_book,      \* import_addr's result: groups in insertion order
    job_list,       \* create_jobs' result
    dist_mat,       \* id -> (id -> distance)
    last_time, num_jobs_day, max_jobs_day, i, current_time,
    now,            \* the wall clock, time()
    oracle,         \* the Distance Oracle: (origin, destination) -> distance
    dispatched,     \* history: the calls made to the oracle and their answers
    csv_rows        \* the rows export_result has written

vars == <<file, pc, addr_book, job_list, dist_mat, last_time, num_jobs_day,
          max_jobs_day, i, current_time, now, oracle, dispatched, csv_rows>>

\* ---------------------------------------------------------------------
\* import_addr
\* ---------------------------------------------------------------------
HasGroup(book, grp) == \E k \in 1..Len(book) : book[k].grp = grp

\* addr_book[grp][id] = add on a defaultdict(dict): dicts keep insertion order
BookPut(book, grp, id, add) ==
    IF HasGroup(book, grp)
    THEN [k \in 1..Len(book) |->
            IF book[k].grp = grp
            THEN [grp |-> grp, adds |-> Append(book[k].adds, [id |-> id, add |-> add])]
            ELSE book[k]]
    ELSE Append(book, [grp |-> grp, adds |-> <<[id |-> id, add |-> add]>>])

\* a malformed line skipped like a comment
RECURSIVE import_lines_lenient(_, _, _)
import_lines_lenient(lines, book, id) ==
    IF lines = <<>> THEN [status |-> "ok", book |-> book]
    ELSE LET line == Head(lines) IN
         IF line.kind # "record" \/ ~IsInt(line.grp)
         THEN import_lines_lenient(Tail(lines), book, id)
         ELSE import_lines_lenient(Tail(lines),
                  BookPut(book, int(line.grp), id, line.add), id + 1)

\* the id counting every line read, skipped or not
RECURSIVE import_lines_numbered(_, _, _)
import_lines_numbered(lines, book, id) ==
    IF lines = <<>> THEN [status |-> "ok", book |-> book]
    ELSE LET line == Head(lines) IN
         IF line.kind \in {"comment", "blank"}
         THEN import_lines_numbered(Tail(lines), book, id + 1)
         ELSE IF line.kind = "short" THEN [status |-> "IndexError", book |-> book]
         ELSE IF ~IsInt(line.grp) THEN [status |-> "ValueError", book |-> book]
         ELSE import_lines_numbered(Tail(lines),
                  BookPut(book, int(line.grp), id, line.add), id + 1)

\* the loop over the lines; items[1] raises IndexError on a line without a
\* tab and int() raises ValueError on a group that is no integer
RECURSIVE import_lines(_, _, _)
import_lines(lines, book, id) ==
    IF lines = <<>> THEN [status |-> "ok", book |-> book]
    ELSE LET line == Head(lines) IN
         IF line.kind = "comment" THEN import_lines(Tail(lines), book, id)
         ELSE IF line.kind = "blank" THEN import_lines(Tail(lines), book, id)
         ELSE IF line.kind = "short" THEN [status |-> "IndexError", book |-> book]
         ELSE IF ~IsInt(line.grp) THEN [status |-> "ValueError", book |-> book]
         ELSE LET add == line.add
                  grp == int(line.grp)
              IN  import_lines(Tail(lines), BookPut(book, grp, id, add), id + 1)

\* the Address Book returned, or the exception raised
import_addr(lines) == import_lines(lines, <<>>, 0)

\* ---------------------------------------------------------------------
\* create_jobs
\* ---------------------------------------------------------------------
\* adds.keys()
Keys(adds) == [k \in 1..Len(adds) |-> adds[k].id]

\* every ordered pair of distinct positions, as itertools.permutations would give
permutations2(keys) ==
    LET n == Len(keys)
        at(k) == <<((k - 1) \div (n - 1)) + 1, ((k - 1) % (n - 1)) + 1>>
        other(a, r) == IF r < a THEN r ELSE r + 1
    IN  IF n < 2 THEN <<>>
        ELSE [k \in 1..(n * (n - 1)) |-> <<keys[at(k)[1]], keys[other(at(k)[1], at(k)[2])]>>]

\* itertools.combinations(keys, 2): pairs of positions, in lexicographic order
RECURSIVE combinations2(_)
combinations2(keys) ==
    IF Len(keys) < 2 THEN <<>>
    ELSE [b \in 1..(Len(keys) - 1) |-> <<keys[1], keys[b + 1]>>]
         \o combinations2(Tail(keys))

\* the pair taken in the reverse direction
MakeJobReversed(grp, id_pair) == <<grp, id_pair[2], id_pair[1]>>
MakeJob(grp, id_pair) == <<grp, id_pair[1], id_pair[2]>>

RECURSIVE create_jobs_from(_, _)
create_jobs_from(entries, jobs) ==
    IF entries = <<>> THEN jobs
    ELSE LET grp == Head(entries).grp
             id_pairs == combinations2(Keys(Head(entries).adds))
         IN  create_jobs_from(Tail(entries),
                 jobs \o [k \in 1..Len(id_pairs) |-> MakeJob(grp, id_pairs[k])])

create_jobs(book) == create_jobs_from(book, <<>>)

\* ---------------------------------------------------------------------
\* query_dist and get_dist_mat
\* ---------------------------------------------------------------------
\* the group's first address, whatever the id
AddrLookupFirst(book, grp, id) ==
    LET e == CHOOSE k \in 1..Len(book) : book[k].grp = grp
    IN  book[e].adds[1].add

\* addr_book[grp][id]
AddrLookup(book, grp, id) ==
    LET e == CHOOSE k \in 1..Len(book) : book[k].grp = grp
        a == CHOOSE k \in 1..Len(book[e].adds) : book[e].adds[k].id = id
    IN  book[e].adds[a].add

\* m[a][b] = v on a defaultdict(dict)
SetCell(m, a, b, v) ==
    LET row == IF a \in DOMAIN m THEN m[a] ELSE <<>> IN
    [x \in (DOMAIN m) \cup {a} |->
        IF x = a THEN [y \in (DOMAIN row) \cup {b} |-> IF y = b THEN v ELSE row[y]]
        ELSE m[x]]

\* the second assignment left out
RecordDistOneWay(m, ori_id, des_id, dist) == SetCell(m, ori_id, des_id, dist)
\* the second assignment written to the destination's own cell
RecordDistDiagonal(m, ori_id, des_id, dist) ==
    SetCell(SetCell(m, ori_id, des_id, dist), des_id, des_id, dist)

\* dist_mat[ori_id][des_id] = dist; dist_mat[des_id][ori_id] = dist
RecordDist(m, ori_id, des_id, dist) ==
    SetCell(SetCell(m, ori_id, des_id, dist), des_id, ori_id, dist)

\* the cap tested one dispatch late
QuotaExceededStrict(n, max) == n > max
\* num_jobs_day >= max_jobs_day
QuotaExceeded(n, max) == n >= max
\* the window test made against time_quota, the one-hour variable
WindowOpenHour(ct, lt) == ct - lt < time_quota
\* current_time - last_time < 3600 * 24
WindowOpen(ct, lt) == ct - lt < quota_window
\* current_time - last_time < time_jobs
NeedPacing(ct, lt) == ct - lt < time_jobs
\* the new day started at the current time itself
ResetReferenceNow(ct) == ct
\* last_time = current_time - 0.002
ResetReference(ct) == ct - time_jobs
\* last_time taken after the call has returned
LastTimeReturned(captured, returned) == returned
\* last_time = current_time: the time read at the top of the iteration
LastTimeAfter(captured, returned) == captured
\* a sleep for what is left of the interval
PacingDelayRemaining(ct, lt) == time_jobs - (ct - lt)
\* sleep(time_jobs): the whole interval, whatever has elapsed
PacingDelay(ct, lt) == time_jobs
\* job_list[i]
JobAt(jobs, k) == jobs[k + 1]
\* the cursor moved by two
AdvanceTwo(k) == k + 2
\* i += 1
Advance(k) == k + 1

num_jobs == Len(job_list)

\* everything but the address file
InitRest ==
    /\ max_jobs_day \in 1..MaxCap
    /\ oracle \in Oracles
    /\ pc = "import_addr"
    /\ addr_book = <<>>
    /\ job_list = <<>>
    /\ dist_mat = <<>>
    /\ last_time = 0
    /\ num_jobs_day = 0
    /\ i = 0
    /\ current_time = 0
    /\ now = StartTime
    /\ dispatched = <<>>
    /\ csv_rows = <<>>

Init == file \in Files /\ InitRest
\* any address file, malformed lines included
InitAny == file \in AnyFiles /\ InitRest

ImportAddr ==
    /\ pc = "import_addr"
    /\ LET r == import_addr(file)
       IN  IF r.status = "ok"
           THEN addr_book' = r.book /\ pc' = "create_jobs"
           ELSE addr_book' = addr_book /\ pc' = r.status
    /\ UNCHANGED <<file, oracle, job_list, dist_mat, last_time, num_jobs_day, max_jobs_day,
                   i, current_time, now, dispatched, csv_rows>>

CreateJobs ==
    /\ pc = "create_jobs"
    /\ job_list' = create_jobs(addr_book)
    /\ pc' = "get_dist_mat"
    /\ UNCHANGED <<file, oracle, addr_book, dist_mat, last_time, num_jobs_day, max_jobs_day,
                   i, current_time, now, dispatched, csv_rows>>

\* the assignments before the while loop
GetDistMatInit ==
    /\ pc = "get_dist_mat"
    /\ dist_mat' = <<>>
    /\ last_time' = 0
    /\ num_jobs_day' = 0
    /\ i' = 0
    /\ pc' = "loop"
    /\ UNCHANGED <<file, oracle, addr_book, job_list, max_jobs_day, current_time, now,
                   dispatched, csv_rows>>

\* while i < num_jobs fails: print and return dist_mat
LoopExit ==
    /\ pc = "loop"
    /\ ~(i < num_jobs)
    /\ pc' = "export_result"
    /\ UNCHANGED <<file, oracle, addr_book, job_list, dist_mat, last_time, num_jobs_day,
                   max_jobs_day, i, current_time, now, dispatched, csv_rows>>

\* quota reached within the day: sleep(wait_time) names an undefined variable,
\* so the statement raises NameError and the run ends
WindowWait ==
    /\ pc = "loop"
    /\ i < num_jobs
    /\ QuotaExceeded(num_jobs_day, max_jobs_day)
    /\ WindowOpen(now, last_time)
    /\ current_time' = now
    /\ pc' = "NameError"
    /\ UNCHANGED <<file, oracle, addr_book, job_list, dist_mat, last_time, num_jobs_day,
                   max_jobs_day, i, now, dispatched, csv_rows>>

\* quota reached and a day has passed: start a new day
WindowReset ==
    /\ pc = "loop"
    /\ i < num_jobs
    /\ QuotaExceeded(num_jobs_day, max_jobs_day)
    /\ ~WindowOpen(now, last_time)
    /\ current_time' = now
    /\ num_jobs_day' = 0
    /\ last_time' = ResetReference(now)
    /\ pc' = "pacing"
    /\ UNCHANGED <<file, oracle, addr_book, job_list, dist_mat, max_jobs_day, i, now,
                   dispatched, csv_rows>>

\* quota not reached
WindowPass ==
    /\ pc = "loop"
    /\ i < num_jobs
    /\ ~QuotaExceeded(num_jobs_day, max_jobs_day)
    /\ current_time' = now
    /\ pc' = "pacing"
    /\ UNCHANGED <<file, oracle, addr_book, job_list, dist_mat, last_time, num_jobs_day,
                   max_jobs_day, i, now, dispatched, csv_rows>>

\* sleep(time_jobs)
PacingSleep ==
    /\ pc = "pacing"
    /\ NeedPacing(current_time, last_time)
    /\ now' = now + PacingDelay(current_time, last_time)
    /\ pc' = "query"
    /\ UNCHANGED <<file, oracle, addr_book, job_list, dist_mat, last_time, num_jobs_day,
                   max_jobs_day, i, current_time, dispatched, csv_rows>>

PacingSkip ==
    /\ pc = "pacing"
    /\ ~NeedPacing(current_time, last_time)
    /\ pc' = "query"
    /\ UNCHANGED <<file, oracle, addr_book, job_list, dist_mat, last_time, num_jobs_day,
                   max_jobs_day, i, current_time, now, dispatched, csv_rows>>

\* query_dist is invoked at `now`, answers after some latency; the answer is
\* recorded and the counters are advanced
QueryDist ==
    /\ pc = "query"
    /\ \E latency \in LatenciesOf(i, num_jobs) :
        LET job == JobAt(job_list, i)
            grp == job[1]
            ori_id == job[2]
            des_id == job[3]
            ori == AddrLookup(addr_book, grp, ori_id)
            des == AddrLookup(addr_book, grp, des_id)
            dist == oracle[<<ori, des>>]
        IN  /\ dispatched' = Append(dispatched,
                    [job |-> job, at |-> now, ori |-> ori, des |-> des, ret |-> dist])
            /\ now' = now + latency
            /\ last_time' = LastTimeAfter(current_time, now + latency)
            /\ dist_mat' = RecordDist(dist_mat, ori_id, des_id, dist)
            /\ i' = Advance(i)
            /\ num_jobs_day' = num_jobs_day + 1
    /\ pc' = "loop"
    /\ UNCHANGED <<file, oracle, addr_book, job_list, max_jobs_day, current_time, csv_rows>>

\* a failure seen only after the origin's cell has been created
QueryFailRecorded ==
    /\ pc = "query"
    /\ pc' = "OracleError"
    /\ dist_mat' = SetCell(dist_mat, JobAt(job_list, i)[2], JobAt(job_list, i)[3], 0)
    /\ UNCHANGED <<file, oracle, addr_book, job_list, last_time, num_jobs_day,
                   max_jobs_day, i, current_time, now, dispatched, csv_rows>>

\* query_dist raises (the request fails, or the answer holds no distance value):
\* nothing catches the exception, so it ends get_dist_mat and main.  The clock
\* is not read again.
QueryFail ==
    /\ pc = "query"
    /\ pc' = "OracleError"
    /\ UNCHANGED <<file, oracle, addr_book, job_list, dist_mat, last_time, num_jobs_day,
                   max_jobs_day, i, current_time, now, dispatched, csv_rows>>

\* ---------------------------------------------------------------------
\* export_result
\* ---------------------------------------------------------------------
\* addr_name[id] = addr over all groups
addr_name(book, id) ==
    LET e == CHOOSE k \in 1..Len(book) :
                \E a \in 1..Len(book[k].adds) : book[k].adds[a].id = id
    IN  AddrLookup(book, book[e].grp, id)

\* sorted(dist_mat.keys())
RECURSIVE sorted(_)
sorted(S) ==
    IF S = {} THEN <<>>
    ELSE LET m == CHOOSE x \in S : \A y \in S : x <= y
         IN  <<m>> \o sorted(S \ {m})

\* dist_mat[ori_id].get(des_id, 0)
GetCell(m, a, b) == IF b \in DOMAIN m[a] THEN m[a][b] ELSE 0

export_rows(book, m) ==
    LET addr_ids == sorted(DOMAIN m)
        header == <<"sample">> \o [k \in 1..Len(addr_ids) |-> addr_name(book, addr_ids[k])]
        row(o) == <<addr_name(book, o)>>
                  \o [k \in 1..Len(addr_ids) |-> GetCell(m, o, addr_ids[k])]
    IN  <<header>> \o [k \in 1..Len(addr_ids) |-> row(addr_ids[k])]

ExportResult ==
    /\ pc = "export_result"
    /\ csv_rows' = export_rows(addr_book, dist_mat)
    /\ pc' = "done"
    /\ UNCHANGED <<file, oracle, addr_book, job_list, dist_mat, last_time, num_jobs_day,
                   max_jobs_day, i, current_time, now, dispatched>>

Next ==
    \/ ImportAddr
    \/ CreateJobs
    \/ GetDistMatInit
    \/ LoopExit
    \/ WindowWait
    \/ WindowReset
    \/ WindowPass
    \/ PacingSleep
    \/ PacingSkip
    \/ QueryDist
    \/ ExportResult

Spec == Init /\ [][Next]_vars

\* The program on any address file.
InputSpec == InitAny /\ [][Next]_vars

\* The same program with an oracle that may fail.
FailNext == Next \/ QueryFail
FailSpec == Init /\ [][FailNext]_vars

\* import_addr and create_jobs alone, on every input file
JobSpec == Init /\ [][ImportAddr \/ CreateJobs]_vars

\* The interpreter runs the next statement whenever there is one.
FairSpec == Spec /\ WF_vars(Next)

TypeOK ==
    /\ pc \in {"import_addr", "create_jobs", "get_dist_mat", "loop", "pacing",
               "query", "export_result", "done", "NameError", "OracleError",
               "IndexError", "ValueError"}
    /\ i \in 0..num_jobs
    /\ num_jobs_day \in 0..max_jobs_day

\* ---------------------------------------------------------------------
\* Properties
\* ---------------------------------------------------------------------
\* get_dist_mat has just returned its matrix (no later statement assigns it)
Returned == pc = "export_result"
\* create_jobs has just returned its list (no later statement assigns job_list)
JobsCreated == pc = "get_dist_mat"

\* the instants at which query_dist was invoked
DispatchAt(k) == dispatched[k].at
NumDispatched == Len(dispatched)

\* the ids the Address Book files under group g, and all its ids
BookIds(book, g) ==
    UNION {{book[e].adds[a].id : a \in 1..Len(book[e].adds)} :
           e \in {k \in 1..Len(book) : book[k].grp = g}}
BookGroups(book) == {book[e].grp : e \in 1..Len(book)}
AllBookIds(book) ==
    UNION {{book[e].adds[a].id : a \in 1..Len(book[e].adds)} : e \in 1..Len(book)}
\* id -> the group the Address Book files it under
BookGroupOf(book) ==
    [x \in AllBookIds(book) |->
        book[CHOOSE e \in 1..Len(book) :
                \E a \in 1..Len(book[e].adds) : book[e].adds[a].id = x].grp]
\* the address strings the Address Book holds at [g][id]
BookAddrs(book, g, id) ==
    UNION {{book[e].adds[a].add :
                a \in {x \in 1..Len(book[e].adds) : book[e].adds[x].id = id}} :
           e \in {k \in 1..Len(book) : book[k].grp = g}}

HasCell(m, a, b) == a \in DOMAIN m /\ b \in DOMAIN m[a]

\* C1 -- Window cap: every time interval [t, t + quota_window) contains at most
\* max_jobs_day dispatches, that is, a dispatch and the max_jobs_day-th dispatch
\* after it are at least quota_window apart.
WindowCap ==
    \A k \in 1..NumDispatched :
        k + max_jobs_day <= NumDispatched
            => DispatchAt(k + max_jobs_day) - DispatchAt(k) >= quota_window

\* C1 witness: with a quota of 2, the second dispatch slept and the fourth one
\* came exactly one window later, after a reset.
WindowCapReached ==
    /\ max_jobs_day = 2
    /\ NumDispatched >= 4
    /\ DispatchAt(4) - DispatchAt(2) = quota_window

\* C2 -- Pacing: any two consecutive dispatches are at least time_jobs apart.
PacingGap ==
    \A k \in 2..NumDispatched : DispatchAt(k) - DispatchAt(k - 1) >= time_jobs

\* C3 -- Completion: every run eventually dispatches every job and returns the
\* finished matrix.
Completion == <>(Returned /\ NumDispatched = Len(job_list))

\* C4 -- Scenario D: with a quota of 1 and two jobs, once the first job is
\* dispatched the second one is eventually dispatched too, at least
\* quota_window later, and the run completes.
ScenarioD ==
    (max_jobs_day = 1 /\ pc = "loop" /\ Len(job_list) = 2 /\ NumDispatched = 1)
        ~> (/\ Returned
            /\ NumDispatched = 2
            /\ DispatchAt(2) - DispatchAt(1) >= quota_window)

\* C5 -- Dispatch order: the k-th dispatch is job_list[k-1]; at a loop boundary
\* exactly the first i jobs have been dispatched, and all of them once the
\* matrix is returned.
DispatchOrder ==
    /\ NumDispatched <= Len(job_list)
    /\ \A k \in 1..NumDispatched : dispatched[k].job = job_list[k]
    /\ pc \in {"loop", "pacing", "query", "NameError"} => NumDispatched = i
    /\ Returned => NumDispatched = Len(job_list)

\* C5 witness: a completed run of at least three jobs with a window reset and
\* a pacing sleep in between.
DispatchOrderReached ==
    /\ Returned
    /\ NumDispatched >= 3
    /\ NumDispatched > max_jobs_day
    /\ \E k \in 2..NumDispatched : DispatchAt(k) - DispatchAt(k - 1) = time_jobs

\* C6 -- Symmetry: for every job dispatched so far, both cells are present and
\* hold the same value.
MatrixSymmetric ==
    \A k \in 1..NumDispatched :
        LET o == dispatched[k].job[2]
            d == dispatched[k].job[3]
        IN  /\ HasCell(dist_mat, o, d)
            /\ HasCell(dist_mat, d, o)
            /\ dist_mat[o][d] = dist_mat[d][o]

\* C6 witness: a loop boundary after two jobs whose distances differ.
MatrixSymmetricReached ==
    /\ pc = "loop"
    /\ NumDispatched >= 2
    /\ dispatched[1].ret # dispatched[2].ret

\* n choose 2, summed over the groups of the Address Book
RECURSIVE SumChoose2(_)
SumChoose2(book) ==
    IF book = <<>> THEN 0
    ELSE LET n == Len(Head(book).adds)
         IN  (n * (n - 1)) \div 2 + SumChoose2(Tail(book))

\* C7 -- Job Generator validity: the list has sum of C(|group|, 2) jobs, each
\* job pairs two distinct ids of its own group, and no unordered pair occurs
\* twice; a group of one address gives no job.
JobsValid ==
    JobsCreated =>
        /\ Len(job_list) = SumChoose2(addr_book)
        /\ \A k \in 1..Len(job_list) :
            /\ job_list[k][2] # job_list[k][3]
            /\ job_list[k][2] \in BookIds(addr_book, job_list[k][1])
            /\ job_list[k][3] \in BookIds(addr_book, job_list[k][1])
        /\ \A j, k \in 1..Len(job_list) :
            j # k => {job_list[j][2], job_list[j][3]} # {job_list[k][2], job_list[k][3]}
        /\ \A g \in BookGroups(addr_book) :
            Cardinality(BookIds(addr_book, g)) <= 1
                => \A k \in 1..Len(job_list) : job_list[k][1] # g

\* C7 witness: a group of three addresses and a group of one.
JobsValidReached ==
    /\ JobsCreated
    /\ \E g \in BookGroups(addr_book) : Cardinality(BookIds(addr_book, g)) = 3
    /\ \E g \in BookGroups(addr_book) : Cardinality(BookIds(addr_book, g)) = 1
    /\ Len(job_list) = 3

LexLess(a, b) == a[1] < b[1] \/ (a[1] = b[1] /\ a[2] < b[2])

\* C8 -- Job order: every job has origin id < destination id; the jobs of a
\* group are contiguous and in lexicographic order; the book {1: {0, 1, 2}}
\* gives exactly (1,0,1), (1,0,2), (1,1,2).
JobsOrdered ==
    JobsCreated =>
        /\ \A k \in 1..Len(job_list) : job_list[k][2] < job_list[k][3]
        /\ \A a, b, c \in 1..Len(job_list) :
            (a < b /\ b < c /\ job_list[a][1] = job_list[c][1])
                => job_list[b][1] = job_list[a][1]
        /\ \A k \in 1..(Len(job_list) - 1) :
            job_list[k][1] = job_list[k + 1][1]
                => LexLess(<<job_list[k][2], job_list[k][3]>>,
                           <<job_list[k + 1][2], job_list[k + 1][3]>>)
        /\ (BookGroups(addr_book) = {1} /\ BookIds(addr_book, 1) = {0, 1, 2})
                => job_list = <<<<1, 0, 1>>, <<1, 0, 2>>, <<1, 1, 2>>>>

\* C8 witness: one group of four addresses interleaved with nothing else, so
\* that the lexicographic order differs from the order by destination.
JobsOrderedReached ==
    /\ JobsCreated
    /\ Len(job_list) = 6
    /\ job_list[3] = <<job_list[1][1], 0, 3>>
    /\ job_list[4] = <<job_list[1][1], 1, 2>>

\* C9 -- Recorded values: after a completed run, the k-th call was made with the
\* address strings of the k-th job, and both cells of the job hold the oracle's
\* answer to that call; under an oracle that answers V to every call every cell
\* of two distinct addresses of one group is V.
RecordedValues ==
    Returned =>
        /\ \A k \in 1..Len(job_list) :
            LET g == job_list[k][1]
                o == job_list[k][2]
                d == job_list[k][3]
            IN  /\ k <= NumDispatched
                /\ dispatched[k].ori \in BookAddrs(addr_book, g, o)
                /\ dispatched[k].des \in BookAddrs(addr_book, g, d)
                /\ dispatched[k].ret = oracle[<<dispatched[k].ori, dispatched[k].des>>]
                /\ HasCell(dist_mat, o, d) /\ dist_mat[o][d] = dispatched[k].ret
                /\ HasCell(dist_mat, d, o) /\ dist_mat[d][o] = dispatched[k].ret
        /\ \A V \in Dists :
            (\A p \in DOMAIN oracle : oracle[p] = V)
                => LET grp == BookGroupOf(addr_book)
                   IN  \A a, b \in DOMAIN grp :
                        (a # b /\ grp[a] = grp[b])
                            => HasCell(dist_mat, a, b) /\ dist_mat[a][b] = V

\* C9 witness: a completed run under the oracle that depends on the origin,
\* with both of its answers recorded.
RecordedValuesReached ==
    /\ Returned
    /\ \E j, k \in 1..NumDispatched : dispatched[j].ret # dispatched[k].ret

\* C10 -- Key set: a cell [a][b] is present only if the job of {a, b} has been
\* dispatched; after a completed run it is present exactly when a and b are
\* distinct ids of one group, and every key is an id of the Address Book.
MatrixKeys ==
    /\ \A a \in DOMAIN dist_mat : \A b \in DOMAIN dist_mat[a] :
        /\ a # b
        /\ \E k \in 1..NumDispatched :
            \/ dispatched[k].job[2] = a /\ dispatched[k].job[3] = b
            \/ dispatched[k].job[2] = b /\ dispatched[k].job[3] = a
    /\ DOMAIN dist_mat \subseteq AllBookIds(addr_book)
    /\ \A k \in 1..NumDispatched :
        /\ dispatched[k].job[2] \in DOMAIN dist_mat
        /\ dispatched[k].job[3] \in DOMAIN dist_mat
    /\ Returned =>
        LET grp == BookGroupOf(addr_book)
        IN  \A a, b \in DOMAIN grp :
                HasCell(dist_mat, a, b) <=> (a # b /\ grp[a] = grp[b])

\* C10 witness: a completed run over two groups of two addresses.
MatrixKeysReached ==
    /\ Returned
    /\ Cardinality(BookGroups(addr_book)) = 2
    /\ Cardinality(DOMAIN dist_mat) = 4

\* the window-cap check finds the quota reached and the window still open
QuotaHitInWindow ==
    /\ pc = "loop"
    /\ i < num_jobs
    /\ num_jobs_day >= max_jobs_day
    /\ now - last_time < quota_window

\* C11 -- Window wait: when the quota is reached and the window is still open,
\* the scheduler suspends and comes back to the top of the loop with the cursor,
\* the counter, last_time and the matrix unchanged and nothing dispatched.
WindowWaitFrame ==
    [][QuotaHitInWindow =>
        /\ pc' = "loop"
        /\ UNCHANGED <<i, num_jobs_day, last_time, dist_mat, dispatched>>]_vars

\* the window-cap check finds the quota reached and the window elapsed
QuotaHitAfterWindow ==
    /\ pc = "loop"
    /\ i < num_jobs
    /\ num_jobs_day >= max_jobs_day
    /\ now - last_time >= quota_window

\* the iteration that has just reset the window, before its dispatch
AfterReset == pc \in {"pacing", "query"} /\ i > 0 /\ num_jobs_day = 0

\* C12 -- Window reset: when the quota is reached and the window has elapsed,
\* the counter becomes 0 and the reference time the current time less 2 ms, and
\* the same iteration dispatches job i at that very time, with no pacing sleep.
WindowResetDispatch ==
    [][/\ QuotaHitAfterWindow =>
            /\ num_jobs_day' = 0
            /\ last_time' = now - time_jobs
            /\ current_time' = now
            /\ pc' = "pacing"
            /\ UNCHANGED <<i, now, dispatched>>
       /\ (AfterReset /\ pc = "pacing") =>
            /\ pc' = "query"
            /\ UNCHANGED <<i, now, num_jobs_day, dispatched>>
       /\ (AfterReset /\ pc = "query") =>
            /\ NumDispatched' = NumDispatched + 1
            /\ dispatched'[NumDispatched'].job = job_list[i + 1]
            /\ dispatched'[NumDispatched'].at = current_time]_vars

\* C12 witness: a job dispatched right after a reset, at the time read at the
\* top of its iteration.
WindowResetReached ==
    /\ pc = "loop"
    /\ num_jobs_day = 1
    /\ NumDispatched > max_jobs_day
    /\ DispatchAt(NumDispatched) = current_time

\* C13 as stated -- Pacing wait: when less than time_jobs has elapsed since the
\* last dispatch, the scheduler waits for the remaining interval.
PacingWaitsRemaining ==
    [][(pc = "pacing" /\ current_time - last_time < time_jobs) =>
            now' - now = time_jobs - (current_time - last_time)]_vars

\* C13 amended -- Pacing wait: when less than time_jobs has elapsed since the
\* last dispatch, the scheduler waits exactly once, for the whole of time_jobs,
\* and then dispatches job i without reading the clock again; otherwise it does
\* not wait.  The check never loops and never keeps job i from being dispatched.
PacingWaitsOnce ==
    [][/\ (pc = "pacing" /\ current_time - last_time < time_jobs) =>
            /\ now' = now + time_jobs
            /\ pc' = "query"
            /\ UNCHANGED <<i, current_time, last_time, num_jobs_day, dispatched>>
       /\ (pc = "pacing" /\ current_time - last_time >= time_jobs) =>
            /\ now' = now
            /\ pc' = "query"
            /\ UNCHANGED <<i, current_time, last_time, num_jobs_day, dispatched>>
       /\ pc = "query" =>
            /\ NumDispatched' = NumDispatched + 1
            /\ dispatched'[NumDispatched'].job = job_list[i + 1]
            /\ dispatched'[NumDispatched'].at = now]_vars

\* C13 witness: a job dispatched after a wait of time_jobs although 1 ms had
\* already elapsed.
PacingWaitReached ==
    /\ pc = "loop"
    /\ NumDispatched >= 2
    /\ last_time - DispatchAt(NumDispatched - 1) \in 1..(time_jobs - 1)
    /\ DispatchAt(NumDispatched) = last_time + time_jobs

\* a step of the loop that dispatches a job
Dispatches == NumDispatched' = NumDispatched + 1
\* the step of the loop that resets the window
Resets == pc = "loop" /\ pc' = "pacing" /\ num_jobs_day >= max_jobs_day

\* C14 -- Bookkeeping: the time in current_time is the one read at the top of
\* the iteration and is kept through the pacing sleep and the call; a dispatch
\* sets last_time to it, adds 1 to the counter and 1 to the cursor; no step but
\* a dispatch or a window reset changes any of the three, and a reset leaves
\* the cursor alone.
Bookkeeping ==
    [][/\ (pc = "loop" /\ pc' # "export_result") => current_time' = now
       /\ pc \in {"pacing", "query"} => current_time' = current_time
       /\ Dispatches =>
            /\ last_time' = current_time
            /\ num_jobs_day' = num_jobs_day + 1
            /\ i' = i + 1
       /\ (~Dispatches /\ ~Resets) => UNCHANGED <<last_time, num_jobs_day, i>>
       /\ Resets => i' = i]_vars

\* C14 witness: a dispatch made after a pacing sleep and answered after 1 ms
\* has left last_time at the time read before the sleep.
BookkeepingReached ==
    /\ pc = "loop"
    /\ NumDispatched >= 2
    /\ last_time = DispatchAt(NumDispatched) - time_jobs
    /\ now = DispatchAt(NumDispatched) + 1

\* C15 -- Oracle failure: when the call for job i raises, the run ends there:
\* the matrix is left as it was, without the cells of job i, nothing has been
\* exported, and no step follows (no dispatch, no return, no export).
OracleFailureEndsRun ==
    [][/\ pc # "OracleError"
       /\ pc' = "OracleError" =>
            /\ pc = "query"
            /\ UNCHANGED <<dist_mat, dispatched, i, csv_rows>>
            /\ csv_rows = <<>>
            /\ ~HasCell(dist_mat', job_list[i + 1][2], job_list[i + 1][3])
            /\ ~HasCell(dist_mat', job_list[i + 1][3], job_list[i + 1][2])
            /\ \A k \in 1..i :
                /\ HasCell(dist_mat', job_list[k][2], job_list[k][3])
                /\ dist_mat'[job_list[k][2]][job_list[k][3]] = dispatched[k].ret
                /\ dist_mat'[job_list[k][3]][job_list[k][2]] = dispatched[k].ret]_vars

\* C15 witness: the call of the third job has failed after two recorded jobs.
OracleFailureReached ==
    /\ pc = "OracleError"
    /\ i = 2
    /\ Cardinality(DOMAIN dist_mat) >= 2

\* the file holds a record without group field or with a non-integer group
Malformed(lines) ==
    \E k \in 1..Len(lines) :
        \/ lines[k].kind = "short"
        \/ lines[k].kind = "record" /\ lines[k].grp \notin {"1", "2"}

\* C16 -- Malformed input: with a malformed record anywhere in the file,
\* import_addr raises: no Address Book is returned, no job is created and no
\* call to the oracle is ever made.
MalformedAborts ==
    Malformed(file) =>
        /\ pc \in {"import_addr", "IndexError", "ValueError"}
        /\ addr_book = <<>>
        /\ job_list = <<>>
        /\ dispatched = <<>>
        /\ csv_rows = <<>>

\* C16 witness: the run has ended on a file whose last line is malformed and
\* whose first three lines are records of one group.
MalformedReached ==
    /\ pc \in {"IndexError", "ValueError"}
    /\ Len(file) = 4
    /\ \A k \in 1..3 : file[k].kind = "record" /\ file[k].grp = "1"

\* the records of the file, comments and blank lines left out, in file order
RecordsOf(lines) == SelectSeq(lines, LAMBDA l : l.kind = "record")
\* how many entries of the Address Book carry the id
IdCount(book, id) ==
    Cardinality({<<e, a>> \in (1..Len(book)) \X (1..MaxLines + 1) :
                    a <= Len(book[e].adds) /\ book[e].adds[a].id = id})

\* C17 -- Address ids: the Address Book import_addr returns holds exactly the
\* ids 0 .. n-1 for the n records of the file, comments and blank lines not
\* counted; id k is held once, in the group named by the k-th record and with
\* that record's address, and in no other group.
AddressIds ==
    pc # "import_addr" =>
        LET recs == RecordsOf(file) IN
        /\ AllBookIds(addr_book) = 0..(Len(recs) - 1)
        /\ \A k \in 0..(Len(recs) - 1) :
              /\ IdCount(addr_book, k) = 1
              /\ \A g \in BookGroups(addr_book) :
                    k \in BookIds(addr_book, g) <=> g = int(recs[k + 1].grp)
              /\ BookAddrs(addr_book, int(recs[k + 1].grp), k) = {recs[k + 1].add}
        /\ \A e \in 1..Len(addr_book) : \A a \in 1..(Len(addr_book[e].adds) - 1) :
              addr_book[e].adds[a].id < addr_book[e].adds[a + 1].id

\* C17 witness: a file imported whose records of two groups alternate around a
\* comment and a blank line.
AddressIdsReached ==
    /\ pc = "create_jobs"
    /\ Len(file) = 4
    /\ file[1].kind = "record" /\ file[1].grp = "2"
    /\ file[2].kind \in {"comment", "blank"}
    /\ file[3].kind = "record" /\ file[3].grp = "1"
    /\ file[4].kind = "record" /\ file[4].grp = "2"
    /\ AllBookIds(addr_book) = {0, 1, 2}

\* C18 -- Export coverage: the rows written are a header of the address names
\* in ascending id order and then one row for every address id of the Address
\* Book, in the same order, each holding the recorded value of every column and
\* 0 where the matrix has no entry.
ExportCoverage ==
    pc = "done" =>
        LET ids == sorted(AllBookIds(addr_book))
            n == Len(ids)
        IN  /\ Len(csv_rows) = n + 1
            /\ csv_rows[1] = <<"sample">> \o [k \in 1..n |-> addr_name(addr_book, ids[k])]
            /\ \A r \in 1..n :
                  csv_rows[r + 1] =
                      <<addr_name(addr_book, ids[r])>>
                      \o [k \in 1..n |->
                            IF HasCell(dist_mat, ids[r], ids[k])
                            THEN dist_mat[ids[r]][ids[k]] ELSE 0]

\* C19 -- Counter bound: the counter of the window stays within
\* 0..max_jobs_day and never exceeds the cursor, the cursor never exceeds the
\* number of jobs, and the loop is past the window check, on its way to the
\* oracle, only with the counter below max_jobs_day.
CounterBound ==
    /\ 0 <= num_jobs_day /\ num_jobs_day <= max_jobs_day
    /\ num_jobs_day <= i /\ i <= num_jobs
    /\ pc \in {"pacing", "query"} => num_jobs_day < max_jobs_day

\* C19 witness: the loop is back at the window check with a second window
\* full and jobs left.
CounterBoundReached ==
    /\ pc = "loop"
    /\ max_jobs_day >= 2
    /\ num_jobs_day = max_jobs_day
    /\ i > num_jobs_day
    /\ i < num_jobs

\* the step on which sleep(wait_time) is reached
WindowWaits == pc = "loop" /\ pc' = "NameError"

\* C20 -- Window reference: every dispatch overwrites last_time with the time
\* captured for it, so with the cap reached the window is reset only when at
\* least quota_window has passed since the time captured for the most recent
\* dispatch; with less than that the window-wait branch is taken, however long
\* ago the window's first dispatch was.
WindowReference ==
    [][/\ Dispatches => last_time' = current_time
       /\ (pc = "loop" /\ QuotaExceeded(num_jobs_day, max_jobs_day) /\ i < num_jobs) =>
              last_time = current_time
       /\ Resets => now - current_time >= quota_window
       /\ WindowWaits => now - current_time < quota_window]_vars

\* C20 witness: the window-wait branch taken although quota_window has passed
\* since the first dispatch of the full window.
WindowReferenceReached ==
    /\ pc = "NameError"
    /\ max_jobs_day >= 2
    /\ now - DispatchAt(NumDispatched - max_jobs_day + 1) >= quota_window
    /\ now - last_time < quota_window
====
